---- MODULE Spec2Model ----
(***************************************************************************)
(* Model of the Home Assistant MCP stdio server (src/main.go).             *)
(*                                                                         *)
(* Strings are sequences of characters (one-character TLA+ strings), so    *)
(* that strings.HasPrefix, strings.TrimRight and concatenation are         *)
(* computed and not assumed.  A JSON value held in a map[string]interface{}*)
(* is a record [kind, val]: kind "str" with the string in val, kind        *)
(* "nonstr" for any other JSON value (number, bool, null, object, array),  *)
(* kind "absent" for a missing key (Go's map lookup yields nil).           *)
(* An optional Go value (a nil-able pointer or interface) is a sequence of *)
(* length 0 (nil) or 1.                                                    *)
(***************************************************************************)
EXTENDS Integers, Sequences, FiniteSets, TLC

\* ---------------------------------------------------------------- bounds
MaxLines == 2
MaxEntities == 1

\* ------------------------------------------------------------ JSON values
Str(s) == [kind |-> "str", val |-> s]
NonStr == [kind |-> "nonstr", val |-> <<>>]
Absent == [kind |-> "absent", val |-> <<>>]

\* Go: v, ok := m[key].(string)
IsString(v) == v.kind = "str"

\* ---------------------------------------------------------------- strings
\* strings.HasPrefix(s, prefix)
HasPrefix(s, prefix) ==
  /\ Len(s) >= Len(prefix)
  /\ SubSeq(s, 1, Len(prefix)) = prefix

\* strings.TrimRight(s, "/")
RECURSIVE TrimRight(_)
TrimRight(s) ==
  IF s # <<>> /\ s[Len(s)] = "/" THEN TrimRight(SubSeq(s, 1, Len(s) - 1)) ELSE s

\* net/url rejects a '%' that is not followed by two hex digits; of the
\* characters used here only "a" is a hex digit.
HexChars == {"a"}
RECURSIVE ValidEscapes(_)
ValidEscapes(s) ==
  IF s = <<>> THEN TRUE
  ELSE IF s[1] = "%"
       THEN /\ Len(s) >= 3
            /\ s[2] \in HexChars
            /\ s[3] \in HexChars
            /\ ValidEscapes(SubSeq(s, 4, Len(s)))
       ELSE ValidEscapes(Tail(s))

\* ------------------------------------------------------------- envelopes
\* MCPError
MCPError(code, message) == [Code |-> code, Message |-> message]

\* MCPResponse; Content and Error carry omitempty, nil is <<>>
MCPResponse(type, content, error) ==
  [Type |-> type, Content |-> content, Error |-> error]

ErrorResponse(code, message) ==
  MCPResponse("error", <<>>, <<MCPError(code, message)>>)

\* the {"content": [{"type": "text", "text": ...}]} result of a tool
TextResult(text) == [content |-> <<[type |-> "text", text |-> text]>>]

\* a text: what was formatted (fmt), its string arguments, its JSON items
Text(fmt, args, kind, items) ==
  [fmt |-> fmt, args |-> args, kind |-> kind, items |-> items]

\* toPrettyJSON of a decoded JSON document
toPrettyJSON(kind, items) == Text("json", <<>>, kind, items)

\* --------------------------------------------------------- HTTP exchange
\* What s.Client.Do returned.  Pending: Do has been called and has not
\* returned yet.  err: transport failure (no response).
Pending == [state |-> "pending", err |-> FALSE, status |-> 0,
            body |-> [kind |-> "garbage", items |-> <<>>]]

\* http.NewRequest fails when the URL does not parse
NewRequestOK(url) == ValidEscapes(url)

\* the request handed to s.Client.Do: method, URL, the two headers, body
HTTPRequest(s, method, url, body) ==
  [method |-> method, url |-> url,
   Authorization |-> <<"Bearer ">> \o s.HAToken,
   ContentType |-> "application/json",
   body |-> body]

\* what a tool handler has done so far: the requests it handed to Client.Do
\* and how it ended (await: blocked in Client.Do; panic: a run-time panic)
Outcome(outcome, reqs, result, err) ==
  [outcome |-> outcome, reqs |-> reqs, result |-> result, err |-> err]

Fail(reqs, code, message) ==
  Outcome("err", reqs, <<>>, <<MCPError(code, message)>>)

StatusError(reqs, status) ==
  Fail(reqs, "HomeAssistantAPIError", <<"status code: ", ToString(status)>>)

\* json.NewDecoder(resp.Body).Decode(&data), data interface{}
DecodesAsAny(body) == body.kind # "garbage"

\* json.NewDecoder(resp.Body).Decode(&entities), entities []map[string]interface{}
DecodesAsEntities(body) == body.kind = "list"

\* ------------------------------------------------------------ handlers
\* getEntityState without the entityID == "" test
getEntityState_NoEmptyCheck(s, args, rep) ==
  LET entityID == args.entity_id
      url == TrimRight(s.HAURL) \o <<"/api/states/">> \o entityID.val
      req == HTTPRequest(s, "GET", url, <<>>)
  IN  IF ~IsString(entityID)
      THEN Fail(<<>>, "InvalidParams", <<"entity_id is required">>)
      ELSE IF ~NewRequestOK(url)
      THEN Fail(<<>>, "InternalError", <<"invalid URL">>)
      ELSE IF rep.state = "pending"
      THEN Outcome("await", <<req>>, <<>>, <<>>)
      ELSE IF rep.err
      THEN Fail(<<req>>, "InternalError", <<"transport error">>)
      ELSE IF rep.status # 200
      THEN StatusError(<<req>>, rep.status)
      ELSE IF ~DecodesAsAny(rep.body)
      THEN Fail(<<req>>, "InternalError", <<"JSON decode error">>)
      ELSE Outcome("ok", <<req>>,
                   <<TextResult(toPrettyJSON(rep.body.kind, rep.body.items))>>,
                   <<>>)

getEntityState(s, args, rep) ==
  LET entityID == args.entity_id
      url == TrimRight(s.HAURL) \o <<"/api/states/">> \o entityID.val
      req == HTTPRequest(s, "GET", url, <<>>)
  IN  IF ~IsString(entityID) \/ entityID.val = <<>>
      THEN Fail(<<>>, "InvalidParams", <<"entity_id is required">>)
      ELSE IF ~NewRequestOK(url)
      THEN Fail(<<>>, "InternalError", <<"invalid URL">>)
      ELSE IF rep.state = "pending"
      THEN Outcome("await", <<req>>, <<>>, <<>>)
      ELSE IF rep.err
      THEN Fail(<<req>>, "InternalError", <<"transport error">>)
      ELSE IF rep.status # 200
      THEN StatusError(<<req>>, rep.status)
      ELSE IF ~DecodesAsAny(rep.body)
      THEN Fail(<<req>>, "InternalError", <<"JSON decode error">>)
      ELSE Outcome("ok", <<req>>,
                   <<TextResult(toPrettyJSON(rep.body.kind, rep.body.items))>>,
                   <<>>)

\* the service name built without the state
ToggleService_AlwaysOn(state) == <<"turn_", "o", "n">>

ToggleService(state) == <<"turn_">> \o state

toggleEntity(s, args, rep) ==
  LET entityID == args.entity_id
      state == args.state
      url == TrimRight(s.HAURL) \o <<"/api/services/homeassistant/">>
               \o ToggleService(state.val)
      req == HTTPRequest(s, "POST", url, <<[entity_id |-> entityID.val]>>)
  IN  IF ~IsString(entityID) \/ entityID.val = <<>>
      THEN Fail(<<>>, "InvalidParams", <<"entity_id is required">>)
      ELSE IF ~IsString(state)
                \/ (state.val # <<"o", "n">> /\ state.val # <<"o", "f", "f">>)
      THEN Fail(<<>>, "InvalidParams", <<"state must be 'on' or 'off'">>)
      ELSE IF ~NewRequestOK(url)
      THEN Fail(<<>>, "InternalError", <<"invalid URL">>)
      ELSE IF rep.state = "pending"
      THEN Outcome("await", <<req>>, <<>>, <<>>)
      ELSE IF rep.err
      THEN Fail(<<req>>, "InternalError", <<"transport error">>)
      ELSE IF rep.status # 200
      THEN StatusError(<<req>>, rep.status)
      ELSE Outcome("ok", <<req>>,
                   <<TextResult(Text("set", <<entityID.val, state.val>>,
                                     "", <<>>))>>,
                   <<>>)

triggerAutomation(s, args, rep) ==
  LET automationID == args.automation_id
      url == TrimRight(s.HAURL) \o <<"/api/services/automation/trigger">>
      req == HTTPRequest(s, "POST", url, <<[entity_id |-> automationID.val]>>)
  IN  IF ~IsString(automationID) \/ automationID.val = <<>>
      THEN Fail(<<>>, "InvalidParams", <<"automation_id is required">>)
      ELSE IF ~NewRequestOK(url)
      THEN Fail(<<>>, "InternalError", <<"invalid URL">>)
      ELSE IF rep.state = "pending"
      THEN Outcome("await", <<req>>, <<>>, <<>>)
      ELSE IF rep.err
      THEN Fail(<<req>>, "InternalError", <<"transport error">>)
      ELSE IF rep.status # 200
      THEN StatusError(<<req>>, rep.status)
      ELSE Outcome("ok", <<req>>,
                   <<TextResult(Text("triggered", <<automationID.val>>,
                                     "", <<>>))>>,
                   <<>>)

\* the filter loop: entity["entity_id"].(string) has no ok-check and panics
\* on an element whose entity_id is missing or not a string
FilterPanics(entities) ==
  \E i \in 1..Len(entities) : ~IsString(entities[i].entity_id)

RECURSIVE FilterByPrefix(_, _)
FilterByPrefix(entities, prefix) ==
  IF entities = <<>> THEN <<>>
  ELSE IF HasPrefix(Head(entities).entity_id.val, prefix)
       THEN <<Head(entities)>> \o FilterByPrefix(Tail(entities), prefix)
       ELSE FilterByPrefix(Tail(entities), prefix)

Simplify(entities) ==
  [i \in 1..Len(entities) |->
     [entity_id |-> entities[i].entity_id,
      state |-> entities[i].state,
      attributes |-> entities[i].attributes]]

\* listEntities sending the request a second time after a non-200 status
listEntities_Retry(s, args, rep) ==
  LET url == TrimRight(s.HAURL) \o <<"/api/states">>
      req == HTTPRequest(s, "GET", url, <<>>)
      domain == args.domain
      filtering == IsString(domain) /\ domain.val # <<>>
      prefix == domain.val \o <<".">>
      entities == rep.body.items
  IN  IF ~NewRequestOK(url)
      THEN Fail(<<>>, "InternalError", <<"invalid URL">>)
      ELSE IF rep.state = "pending"
      THEN Outcome("await", <<req>>, <<>>, <<>>)
      ELSE IF rep.err
      THEN Fail(<<req>>, "InternalError", <<"transport error">>)
      ELSE IF rep.status # 200
      THEN StatusError(<<req, req>>, rep.status)
      ELSE IF ~DecodesAsEntities(rep.body)
      THEN Fail(<<req>>, "InternalError", <<"JSON decode error">>)
      ELSE IF filtering /\ FilterPanics(entities)
      THEN Outcome("panic", <<req>>, <<>>, <<>>)
      ELSE Outcome("ok", <<req>>,
                   <<TextResult(toPrettyJSON("list",
                        Simplify(IF filtering
                                 THEN FilterByPrefix(entities, prefix)
                                 ELSE entities)))>>,
                   <<>>)

listEntities(s, args, rep) ==
  LET url == TrimRight(s.HAURL) \o <<"/api/states">>
      req == HTTPRequest(s, "GET", url, <<>>)
      domain == args.domain
      filtering == IsString(domain) /\ domain.val # <<>>
      prefix == domain.val \o <<".">>
      entities == rep.body.items
  IN  IF ~NewRequestOK(url)
      THEN Fail(<<>>, "InternalError", <<"invalid URL">>)
      ELSE IF rep.state = "pending"
      THEN Outcome("await", <<req>>, <<>>, <<>>)
      ELSE IF rep.err
      THEN Fail(<<req>>, "InternalError", <<"transport error">>)
      ELSE IF rep.status # 200
      THEN StatusError(<<req>>, rep.status)
      ELSE IF ~DecodesAsEntities(rep.body)
      THEN Fail(<<req>>, "InternalError", <<"JSON decode error">>)
      ELSE IF filtering /\ FilterPanics(entities)
      THEN Outcome("panic", <<req>>, <<>>, <<>>)
      ELSE Outcome("ok", <<req>>,
                   <<TextResult(toPrettyJSON("list",
                        Simplify(IF filtering
                                 THEN FilterByPrefix(entities, prefix)
                                 ELSE entities)))>>,
                   <<>>)

\* ---------------------------------------------------------- dispatcher
ToolNames == {"get_state", "toggle_entity", "trigger_automation", "list_entities"}

Tool(name, properties, required) ==
  [Name |-> name, properties |-> properties, required |-> required]

InitializeTools ==
  << Tool("get_state", <<"entity_id">>, <<"entity_id">>),
     Tool("toggle_entity", <<"entity_id", "state">>, <<"entity_id", "state">>),
     Tool("trigger_automation", <<"automation_id">>, <<"automation_id">>),
     Tool("list_entities", <<"domain">>, <<>>) >>

\* what handling a line has done so far: like Outcome, with the handler that
\* was entered ("none" if none) and the response to send once it returned
Handling(outcome, reqs, handlerName, response) ==
  [outcome |-> outcome, reqs |-> reqs, handler |-> handlerName, resp |-> response]

Returned(response) == Handling("returned", <<>>, "none", <<response>>)

handleListTools(s) ==
  MCPResponse("response", <<[tools |-> s.Tools]>>, <<>>)

\* the default branch of the switch leaving mcpErr nil
UnknownTool_NoError(name) == Outcome("err", <<>>, <<>>, <<>>)

UnknownTool(name) ==
  Fail(<<>>, "MethodNotFound", <<"unknown tool: ", name>>)

handleCallTool(s, params, rep) ==
  IF ~params.decodes
  THEN Returned(ErrorResponse("InvalidParams", <<"params parse error">>))
  ELSE LET name == params.Name
           args == params.Arguments
           call == CASE name = "get_state" ->
                          [by |-> "get_state", r |-> getEntityState(s, args, rep)]
                     [] name = "toggle_entity" ->
                          [by |-> "toggle_entity", r |-> toggleEntity(s, args, rep)]
                     [] name = "trigger_automation" ->
                          [by |-> "trigger_automation",
                           r |-> triggerAutomation(s, args, rep)]
                     [] name = "list_entities" ->
                          [by |-> "list_entities", r |-> listEntities(s, args, rep)]
                     [] OTHER -> [by |-> "none", r |-> UnknownTool(name)]
           r == call.r
       IN  IF r.outcome \in {"await", "panic"}
           THEN Handling(r.outcome, r.reqs, call.by, <<>>)
           ELSE IF r.err # <<>>
           THEN Handling("returned", r.reqs, call.by,
                         <<MCPResponse("error", <<>>, r.err)>>)
           ELSE Handling("returned", r.reqs, call.by,
                         <<MCPResponse("response", r.result, <<>>)>>)

\* handleRequest taking every method other than list_tools for call_tool
handleRequest_AnyCall(s, req, rep) ==
  CASE req.Method = "list_tools" -> Returned(handleListTools(s))
    [] OTHER -> handleCallTool(s, req.Params, rep)

handleRequest(s, req, rep) ==
  CASE req.Method = "list_tools" -> Returned(handleListTools(s))
    [] req.Method = "call_tool" -> handleCallTool(s, req.Params, rep)
    [] OTHER -> Returned(ErrorResponse("MethodNotFound",
                                       <<"unknown method: ", req.Method>>))

\* the body of Run's loop for one line, up to the call of sendResponse
HandleLine(s, line, rep) ==
  IF ~line.parses
  THEN Returned(ErrorResponse("InvalidRequest", <<"request parse error">>))
  ELSE handleRequest(s, line, rep)

\* sendResponse: json.Marshal cannot fail on these values (strings, maps,
\* slices), so the line is always printed
sendResponse(stdout, n, response) ==
  Append(stdout, [line |-> n, resp |-> response])

\* ------------------------------------------------------------- inputs
NoArgs == [entity_id |-> Absent, state |-> Absent,
           automation_id |-> Absent, domain |-> Absent]

NoParams == [decodes |-> FALSE, Name |-> "", Arguments |-> NoArgs]

Call(name, args) == [parses |-> TRUE, Method |-> "call_tool",
                     Params |-> [decodes |-> TRUE, Name |-> name,
                                 Arguments |-> args]]

NoLine == [parses |-> FALSE, Method |-> "", Params |-> NoParams]

On == <<"o", "n">>
Off == <<"o", "f", "f">>

EntityIdArgs == {Absent, NonStr, Str(<<>>), Str(<<"l", ".", "a">>), Str(<<"%">>)}
StateArgs == {Absent, NonStr, Str(On), Str(Off), Str(<<"t", "o", "g">>)}
AutomationIdArgs == {Absent, NonStr, Str(<<>>), Str(<<"a", ".", "m">>)}
DomainArgs == {Absent, NonStr, Str(<<>>), Str(<<"l">>)}

Lines ==
  {NoLine}
  \cup {[parses |-> TRUE, Method |-> m, Params |-> NoParams] :
          m \in {"list_tools", "call_tool", "ping"}}
  \cup {Call("nope", NoArgs)}
  \cup {Call("get_state", [NoArgs EXCEPT !.entity_id = e]) : e \in EntityIdArgs}
  \cup {Call("toggle_entity", [NoArgs EXCEPT !.entity_id = e, !.state = st]) :
          e \in EntityIdArgs, st \in StateArgs}
  \cup {Call("trigger_automation", [NoArgs EXCEPT !.automation_id = a]) :
          a \in AutomationIdArgs}
  \cup {Call("list_entities", [NoArgs EXCEPT !.domain = d]) : d \in DomainArgs}

Entity(id) == [entity_id |-> id, state |-> Str(On),
               attributes |-> NonStr, context |-> NonStr]

EntityIds == {Str(<<"l", ".", "a">>), Str(<<"l", ".", "b">>),
              Str(<<"l", "x", ".", "a">>), Absent}

EntityLists ==
  UNION {[1..n -> {Entity(id) : id \in EntityIds}] : n \in 0..MaxEntities}

Body(kind, items) == [kind |-> kind, items |-> items]

Bodies == {Body("garbage", <<>>), Body("object", <<>>)}
          \cup {Body("list", l) : l \in EntityLists}

Reply(err, status, body) ==
  [state |-> "done", err |-> err, status |-> status, body |-> body]

Replies ==
  {Reply(TRUE, 0, Body("garbage", <<>>))}
  \cup {Reply(FALSE, 200, b) : b \in Bodies}
  \cup {Reply(FALSE, st, b) : st \in {201, 404},
          b \in {Body("garbage", <<>>), Body("list", <<>>)}}

\* the single-object endpoints answer with short bodies, /api/states with
\* any list
RepliesTo(line) ==
  IF line.Params.Name = "list_entities"
  THEN Replies
  ELSE {r \in Replies : Len(r.body.items) <= 1}

\* the last one does not parse as a URL
HAURLs == {<<"h">>, <<"h", "/", "/">>, <<"h", "%">>}

\* -------------------------------------------------------------- state
VARIABLES
  HAURL,       \* s.HAURL
  HAToken,     \* s.HAToken
  Tools,       \* s.Tools
  sigPending,  \* s.ExitChan (capacity 1) holds a signal
  proc,        \* "running", "exit0" (os.Exit(0)), "returned" (main returned),
               \* "panic" (run-time panic, exit status 2)
  pc,          \* where Run is: "start", "read", "handle", "http", "send", "done"
  consumed,    \* lines scanner.Scan has returned
  cur,         \* the line being handled
  reply,       \* what Client.Do returned for the line being handled
  resp,        \* the response about to be sent (nil: <<>>)
  handler,     \* the tool handler entered for the line being handled
  httpReqs,    \* requests handed to Client.Do for the line being handled
  out          \* lines printed on stdout

vars == <<HAURL, HAToken, Tools, sigPending, proc, pc, consumed, cur, reply,
          resp, handler, httpReqs, out>>

config == <<HAURL, HAToken, Tools>>

Server == [HAURL |-> HAURL, HAToken |-> HAToken, Tools |-> Tools]

\* NewHomeAssistantServer, called by main
Init ==
  /\ HAURL \in HAURLs
  /\ HAToken = <<"t">>
  /\ Tools = <<>>
  /\ sigPending = FALSE
  /\ proc = "running"
  /\ pc = "start"
  /\ consumed = 0
  /\ cur = NoLine
  /\ reply = Pending
  /\ resp = <<>>
  /\ handler = "none"
  /\ httpReqs = <<>>
  /\ out = <<>>

\* Run up to the loop: InitializeTools, signal.Notify, go func
RunStart ==
  /\ proc = "running" /\ pc = "start"
  /\ Tools' = InitializeTools
  /\ pc' = "read"
  /\ UNCHANGED <<HAURL, HAToken, sigPending, proc, consumed, cur, reply, resp,
                 handler, httpReqs, out>>

\* SIGINT or SIGTERM arrives; os/signal does a non-blocking send on ExitChan
Signal ==
  /\ proc = "running" /\ pc # "start"
  /\ ~sigPending
  /\ sigPending' = TRUE
  /\ UNCHANGED <<config, proc, pc, consumed, cur, reply, resp, handler,
                 httpReqs, out>>

\* the goroutine: <-s.ExitChan; os.Exit(0)
Shutdown ==
  /\ proc = "running" /\ sigPending
  /\ sigPending' = FALSE
  /\ proc' = "exit0"
  /\ UNCHANGED <<config, pc, consumed, cur, reply, resp, handler, httpReqs, out>>

\* scanner.Scan() returns true with the next line
ReadLine ==
  /\ proc = "running" /\ pc = "read"
  /\ consumed < MaxLines
  /\ \E line \in Lines : cur' = line
  /\ consumed' = consumed + 1
  /\ pc' = "handle"
  /\ reply' = Pending
  /\ resp' = <<>>
  /\ handler' = "none"
  /\ httpReqs' = <<>>
  /\ UNCHANGED <<config, sigPending, proc, out>>

\* scanner.Scan() returns false: Run returns, main returns
Eof ==
  /\ proc = "running" /\ pc = "read"
  /\ pc' = "done"
  /\ proc' = "returned"
  /\ UNCHANGED <<config, sigPending, consumed, cur, reply, resp, handler,
                 httpReqs, out>>

\* how the run continues once handling has got as far as h
Continue(h) ==
  /\ handler' = h.handler
  /\ httpReqs' = h.reqs
  /\ resp' = h.resp
  /\ pc' = CASE h.outcome = "await" -> "http"
             [] h.outcome = "panic" -> pc
             [] OTHER -> "send"
  /\ proc' = IF h.outcome = "panic" THEN "panic" ELSE proc

\* Handle with a list_tools that builds the catalog again onto s.Tools
Handle_Reinit ==
  /\ proc = "running" /\ pc = "handle"
  /\ Continue(HandleLine(Server, cur, Pending))
  /\ Tools' = IF cur.parses /\ cur.Method = "list_tools"
              THEN Tools \o InitializeTools
              ELSE Tools
  /\ UNCHANGED <<HAURL, HAToken, sigPending, consumed, cur, reply, out>>

\* json.Unmarshal of the line, handleRequest, up to the return of the
\* handler or its call of Client.Do
Handle ==
  /\ proc = "running" /\ pc = "handle"
  /\ Continue(HandleLine(Server, cur, Pending))
  /\ UNCHANGED <<config, sigPending, consumed, cur, reply, out>>

\* Client.Do returns; the handler runs to its end
HttpReply ==
  /\ proc = "running" /\ pc = "http"
  /\ \E rep \in RepliesTo(cur) :
       /\ reply' = rep
       /\ Continue(HandleLine(Server, cur, rep))
  /\ UNCHANGED <<config, sigPending, consumed, cur, out>>

\* s.sendResponse(resp), then back to scanner.Scan
SendResponse ==
  /\ proc = "running" /\ pc = "send"
  /\ out' = sendResponse(out, consumed, resp[1])
  /\ pc' = "read"
  /\ cur' = NoLine
  /\ reply' = Pending
  /\ resp' = <<>>
  /\ handler' = "none"
  /\ httpReqs' = <<>>
  /\ UNCHANGED <<config, sigPending, proc, consumed>>

Next ==
  \/ RunStart
  \/ Signal
  \/ Shutdown
  \/ ReadLine
  \/ Eof
  \/ Handle
  \/ HttpReply
  \/ SendResponse

Spec == Init /\ [][Next]_vars

\* ===================================================================
\* Properties
\* ===================================================================

\* the line being handled is a call_tool request whose params decode
IsCall(line) ==
  line.parses /\ line.Method = "call_tool" /\ line.Params.decodes

\* ... and names one of the four tools
IsToolCall(line) == IsCall(line) /\ line.Params.Name \in ToolNames

IsCallOf(line, name) == IsCall(line) /\ line.Params.Name = name

ArgsOf(line) == line.Params.Arguments

\* the handling of the current line has come to its end
HandlingOver == pc = "send" \/ proc = "panic"

NonEmptyString(v) == v.kind = "str" /\ Len(v.val) > 0

IsSuccess(r) == r.Type = "response" /\ Len(r.Content) = 1 /\ r.Error = <<>>

ErrorCodes == {"InvalidRequest", "MethodNotFound", "InvalidParams",
               "InternalError", "HomeAssistantAPIError"}

IsError(r) ==
  /\ r.Type = "error"
  /\ r.Content = <<>>
  /\ Len(r.Error) = 1
  /\ r.Error[1].Code \in ErrorCodes
  /\ Len(r.Error[1].Message) > 0

HasCode(r, code) == r.Type = "error" /\ Len(r.Error) = 1 /\ r.Error[1].Code = code

EndsWith(str, suffix) ==
  /\ Len(str) >= Len(suffix)
  /\ SubSeq(str, Len(str) - Len(suffix) + 1, Len(str)) = suffix

\* the required arguments of a tool call are all valid
RequiredArgsValid(line) ==
  LET a == ArgsOf(line)
      n == line.Params.Name
  IN  /\ n \in {"get_state", "toggle_entity"} => NonEmptyString(a.entity_id)
      /\ n = "toggle_entity" => a.state \in {Str(On), Str(Off)}
      /\ n = "trigger_automation" => NonEmptyString(a.automation_id)

\* the URL of the call parses: the base URL does, and so does the entity id
\* that get_state puts in the path
UrlBuilds(line) ==
  /\ ValidEscapes(HAURL)
  /\ line.Params.Name = "get_state" => ValidEscapes(ArgsOf(line).entity_id.val)

\* ------------------------------------------------------------------ C1
\* C1: every line the loop has consumed has exactly one response on stdout,
\* written before the next line is read, in the order of the lines.  Stated
\* for the moments when the loop is not in the middle of a line (it is back
\* at the read, has returned, or the process has died of a panic); a process
\* stopped by os.Exit(0) in the middle of a line is left out.
C1_OneResponsePerLine ==
  /\ \A i \in 1..Len(out) : out[i].line = i
  /\ (pc \in {"read", "done"} \/ proc = "panic") => Len(out) = consumed

\* ------------------------------------------------------------------ C2
\* C2 (as stated): every tool invocation whose handler has come to its end
\* has issued exactly one HTTP request.
C2_ExactlyOneRequest ==
  (HandlingOver /\ IsToolCall(cur)) => Len(httpReqs) = 1

\* C2 (amended): a tool invocation never issues more than one HTTP request;
\* once its handler has come to its end it has issued exactly one if its
\* required arguments are valid and the request URL parses, and none
\* otherwise.
C2_AtMostOneRequest ==
  /\ Len(httpReqs) <= 1
  /\ (HandlingOver /\ IsToolCall(cur)) =>
       (Len(httpReqs) = 1 <=> (RequiredArgsValid(cur) /\ UrlBuilds(cur)))
  /\ (pc = "http") => (IsToolCall(cur) /\ Len(httpReqs) = 1)

C2_Witness ==
  /\ pc = "send" /\ IsCallOf(cur, "get_state")
  /\ Len(httpReqs) = 1 /\ IsSuccess(resp[1])

\* ------------------------------------------------------------------ C3
\* C3: a tool invocation, whatever its arguments and whatever Home Assistant
\* replies, ends with a success or an error object (code and message); the
\* process never aborts without a response.
C3_SuccessOrErrorObject ==
  IsToolCall(cur) =>
    /\ proc # "panic"
    /\ pc = "send" => (IsSuccess(resp[1]) \/ IsError(resp[1]))

\* ------------------------------------------------------------------ C4
\* C4: every response written is either type "response" with content and
\* no error, or type "error" with no content and an error whose code is one
\* of the five codes and whose message is not empty.
C4_UniformEnvelope ==
  \A i \in 1..Len(out) :
    /\ IsSuccess(out[i].resp) \/ IsError(out[i].resp)
    /\ ~(IsSuccess(out[i].resp) /\ IsError(out[i].resp))
    /\ out[i].resp.Type \in {"response", "error"}

C4_Witness ==
  \E i, j \in 1..Len(out) : IsSuccess(out[i].resp) /\ IsError(out[j].resp)

\* ------------------------------------------------------------------ C5
\* the catalog in the order InitializeTools builds it
CatalogNames ==
  <<"get_state", "toggle_entity", "trigger_automation", "list_entities">>

IsCatalog(r) ==
  /\ IsSuccess(r)
  /\ DOMAIN r.Content[1] = {"tools"}
  /\ [i \in 1..Len(r.Content[1].tools) |-> r.Content[1].tools[i].Name]
       = CatalogNames

\* C5 (as stated): list_tools returns the catalog, call_tool runs the handler
\* named by params.name, and every other request yields MethodNotFound with
\* no handler run and no HTTP request.
C5_DispatchThreeWay ==
  (HandlingOver /\ cur.parses) =>
    IF cur.Method = "list_tools"
    THEN IsCatalog(resp[1]) /\ handler = "none" /\ httpReqs = <<>>
    ELSE IF cur.Method = "call_tool" /\ cur.Params.Name \in ToolNames
    THEN handler = cur.Params.Name
    ELSE /\ HasCode(resp[1], "MethodNotFound")
         /\ handler = "none"
         /\ httpReqs = <<>>

\* C5 (amended): as stated, except that a call_tool request whose params do
\* not decode yields InvalidParams (no handler run, no HTTP request).
C5_Dispatch ==
  (HandlingOver /\ cur.parses) =>
    IF cur.Method = "list_tools"
    THEN IsCatalog(resp[1]) /\ handler = "none" /\ httpReqs = <<>>
    ELSE IF cur.Method = "call_tool" /\ ~cur.Params.decodes
    THEN /\ HasCode(resp[1], "InvalidParams")
         /\ handler = "none"
         /\ httpReqs = <<>>
    ELSE IF cur.Method = "call_tool" /\ cur.Params.Name \in ToolNames
    THEN handler = cur.Params.Name
    ELSE /\ HasCode(resp[1], "MethodNotFound")
         /\ handler = "none"
         /\ httpReqs = <<>>

C5_Witness ==
  /\ pc = "send" /\ IsCallOf(cur, "trigger_automation")
  /\ handler = "trigger_automation" /\ IsSuccess(resp[1])

\* ------------------------------------------------------------------ C6
\* C6: once Run has built the catalog, no step changes the base URL, the
\* token or the catalog; list_tools answers with the four-entry catalog
\* every time; and the response handed to sendResponse is the one a server
\* that has handled nothing yet gives to the same line and the same reply.
C6_NoStateAcrossInvocations ==
  [][ /\ pc # "start" => config' = config
      /\ (pc' = "send" /\ cur'.parses /\ cur'.Method = "list_tools")
           => IsCatalog(resp'[1])
      /\ pc' = "send" =>
           resp' = HandleLine([HAURL |-> HAURL, HAToken |-> <<"t">>,
                               Tools |-> InitializeTools], cur', reply').resp
    ]_vars

C6_Witness ==
  /\ Len(out) = 2
  /\ IsCatalog(out[1].resp)
  /\ out[2].resp = out[1].resp

\* ------------------------------------------------------------------ C7
IsListReply(rep) ==
  rep.state = "done" /\ ~rep.err /\ rep.status = 200 /\ rep.body.kind = "list"

\* the entities list_entities is to return for a domain argument
Selected(entities, domain) ==
  LET Match(e) == /\ e.entity_id.kind = "str"
                  /\ HasPrefix(e.entity_id.val, domain.val \o <<".">>)
  IN  IF NonEmptyString(domain) THEN SelectSeq(entities, Match) ELSE entities

Reduced(entities) ==
  [i \in 1..Len(entities) |->
     [entity_id |-> entities[i].entity_id,
      state |-> entities[i].state,
      attributes |-> entities[i].attributes]]

ReturnsSelected ==
  /\ pc = "send"
  /\ IsSuccess(resp[1])
  /\ resp[1].Content[1].content[1].text.items
       = Reduced(Selected(reply.body.items, ArgsOf(cur).domain))

\* C7: on a 200 reply carrying a list, list_entities returns the entities
\* whose entity_id starts with domain + "." (all of them without a domain),
\* in the order of the list, each reduced to entity_id, state, attributes.
C7_ListEntitiesFilter ==
  (IsCallOf(cur, "list_entities") /\ IsListReply(reply)) => ReturnsSelected

\* what does hold: the same, for lists whose elements all carry a string
\* entity_id
ListEntitiesFilterOnStringIds ==
  ( /\ IsCallOf(cur, "list_entities") /\ IsListReply(reply)
    /\ \A i \in 1..Len(reply.body.items) :
         reply.body.items[i].entity_id.kind = "str" )
  => ReturnsSelected

\* ------------------------------------------------------------------ C8
ServiceUrlSuffix(state) == <<"/api/services/homeassistant/", "turn_">> \o state

\* C8: toggle_entity posts to homeassistant/turn_on exactly when state is
\* "on" and to homeassistant/turn_off exactly when it is "off", with the
\* given entity_id in the payload; it reports success, naming the entity and
\* the state, only after that POST returned 200; for any other state it
\* issues no request.
C8_ToggleService ==
  IsCallOf(cur, "toggle_entity") =>
    LET a == ArgsOf(cur)
    IN  /\ \A i \in 1..Len(httpReqs) :
             /\ httpReqs[i].method = "POST"
             /\ a.state \in {Str(On), Str(Off)}
             /\ EndsWith(httpReqs[i].url, ServiceUrlSuffix(a.state.val))
             /\ httpReqs[i].url
                  = TrimRight(HAURL) \o ServiceUrlSuffix(a.state.val)
             /\ httpReqs[i].body = <<[entity_id |-> a.entity_id.val]>>
        /\ a.state \notin {Str(On), Str(Off)} => httpReqs = <<>>
        /\ (pc = "send" /\ IsSuccess(resp[1])) =>
             /\ Len(httpReqs) = 1
             /\ ~reply.err /\ reply.status = 200
             /\ resp[1].Content[1].content[1].text.args
                  = <<a.entity_id.val, a.state.val>>

C8_Witness ==
  /\ pc = "send" /\ IsCallOf(cur, "toggle_entity")
  /\ ArgsOf(cur).state = Str(Off)
  /\ IsSuccess(resp[1])
  /\ Len(httpReqs) = 1

\* ------------------------------------------------------------------ C9
InvalidRequiredArg(line) ==
  LET a == ArgsOf(line)
  IN  \/ /\ line.Params.Name \in {"get_state", "toggle_entity"}
         /\ ~NonEmptyString(a.entity_id)
      \/ /\ line.Params.Name = "toggle_entity"
         /\ a.state \notin {Str(On), Str(Off)}
      \/ /\ line.Params.Name = "trigger_automation"
         /\ ~NonEmptyString(a.automation_id)

\* C9: a get_state, toggle_entity or trigger_automation call with an invalid
\* required argument sends no HTTP request and ends with InvalidParams.
C9_ValidationFirst ==
  (IsCall(cur) /\ InvalidRequiredArg(cur)) =>
    /\ httpReqs = <<>>
    /\ pc # "http"
    /\ proc # "panic"
    /\ pc = "send" => HasCode(resp[1], "InvalidParams")

C9_Witness ==
  /\ pc = "send" /\ IsCallOf(cur, "toggle_entity")
  /\ NonEmptyString(ArgsOf(cur).entity_id)
  /\ ArgsOf(cur).state = Str(<<"t", "o", "g">>)
  /\ HasCode(resp[1], "InvalidParams")
  /\ httpReqs = <<>>

\* ----------------------------------------------------------------- C10
\* a signal has been delivered to ExitChan (it is still there, or the
\* goroutine has taken it and called os.Exit(0))
SignalDelivered == sigPending \/ proc = "exit0"

\* C10: a process that has been sent a termination signal and has stopped
\* has stopped with exit status 0 (os.Exit(0), or main returning).
C10_SignalExitsZero ==
  (SignalDelivered /\ proc # "running") => proc \in {"exit0", "returned"}

====
